---- MODULE Spec2Model ----
(***************************************************************************)
(* A model of website_monitor.py: the WebsiteMonitor class (content        *)
(* extraction, fingerprint, JSON store, oracle client, orchestrator loop)  *)
(* and main().  One process invocation is one run; runs follow each other  *)
(* and share only the storage file.                                        *)
(***************************************************************************)
EXTENDS Integers, Sequences, FiniteSets, TLC

VARIABLES
    now,            \* the wall clock read by datetime.now()
    disk,           \* website_storage.json: [kind, data]
    pc,             \* "idle" | "loop" | "done" | "exited" | "interrupted"
    websites,       \* the list handed to monitor_websites
    i,              \* position of the for loop in websites (1-based)
    loaded,         \* what load_stored_data returned at the start of the run
    stored_data,    \* the in-memory store of the run (a dict: URL -> record)
    results,        \* the result lines of the run
    fetched,        \* (current_content, site_title) of the last get_website_content
    oracle_calls,   \* the compare_with_ai calls of the run, in order
    save_calls,     \* the arguments of the save_stored_data calls of the run
    sleeps,         \* number of time.sleep(1) pauses taken in the run
    oracle_failed,  \* URL -> content fetched when its oracle call failed (history)
    previous,       \* how the process before this one ended: "saved" | "none"
    frame           \* one method applied on its own: [fn, args, out]; NoCall in a run

vars == <<now, disk, pc, websites, i, loaded, stored_data, results, fetched,
          oracle_calls, save_calls, sleeps, oracle_failed,
          previous, frame>>

----------------------------------------------------------------------------
(* Bounds of the model *)

MaxClock == 1
DigestSpace == 7
MaxOver == 4

(* Program constants *)

max_chars == 8000

URLs == {"u1", "u2"}

----------------------------------------------------------------------------
(* Text: a string is a sequence of characters *)

Whitespace == {" ", "\n"}

Ellipsis == <<".", ".", ".">>

RECURSIVE LStrip(_)
LStrip(s) ==
    IF s # <<>> /\ Head(s) \in Whitespace THEN LStrip(Tail(s)) ELSE s

RECURSIVE RStrip(_)
RStrip(s) ==
    IF s # <<>> /\ s[Len(s)] \in Whitespace
    THEN RStrip(SubSeq(s, 1, Len(s) - 1)) ELSE s

\* str.strip()
Strip(s) == RStrip(LStrip(s))

\* re.sub(r'\s+', ' ', s): every run of whitespace becomes one space
RECURSIVE CollapseWs(_)
CollapseWs(s) ==
    IF s = <<>> THEN <<>>
    ELSE IF Head(s) \in Whitespace
         THEN <<" ">> \o CollapseWs(LStrip(s))
         ELSE <<Head(s)>> \o CollapseWs(Tail(s))

\* lines 96-99: the extracted text, whitespace collapsed and trimmed
NormalizeText(body) == Strip(CollapseWs(body))

\* str.startswith('-')
StartsWithDash(s) == s # <<>> /\ Head(s) = "-"

----------------------------------------------------------------------------
(* Pages served by the monitored sites *)

NoTitleTag == "<none>"

Pages ==
    { [title |-> "A",        body |-> <<"x">>],
      [title |-> "A",        body |-> <<" ", "x", "\n">>],
      [title |-> "B",        body |-> <<"x", " ", "\n", "y">>],
      [title |-> NoTitleTag, body |-> <<" ", "\n">>] }

\* lines 78-79
PageTitle(page) ==
    IF page.title = NoTitleTag THEN "No title" ELSE page.title

\* What the HTTP request for a URL does
FetchEvents ==
    {[kind |-> "ok", page |-> p] : p \in Pages}
        \cup {[kind |-> k, page |-> <<>>] : k \in {"request_error", "processing_error"}}

\* lines 65-109: the page the site serves at this moment is the environment's
\* choice; ev.page is what the request returns
get_website_content(url, ev) ==
    CASE ev.kind = "ok" ->
            [content |-> NormalizeText(ev.page.body), title |-> PageTitle(ev.page)]
      [] ev.kind = "request_error" ->
            [content |-> <<>>, title |-> "Error fetching"]
      [] OTHER ->
            [content |-> <<>>, title |-> "Error processing"]

----------------------------------------------------------------------------
(* Fingerprint: a digest of the characters, in order.  The digest space is *)
(* smaller than the text space, so distinct texts may share a digest.      *)

CharCode(c) ==
    CASE c = "x" -> 1 [] c = "y" -> 2 [] c = " " -> 3 [] OTHER -> 4

RECURSIVE DigestFrom(_, _)
DigestFrom(h, s) ==
    IF s = <<>> THEN h
    ELSE DigestFrom((h * 4 + CharCode(Head(s))) % DigestSpace, Tail(s))

calculate_content_hash(content) == ToString(DigestFrom(0, content))

----------------------------------------------------------------------------
(* Python dicts: functions whose domain is the set of keys *)

EmptyDict == [k \in {} |-> {}]

\* dict.get(key, default)
Get(d, key, default) == IF key \in DOMAIN d THEN d[key] ELSE default

\* dict.update(upd)
Update(d, upd) ==
    [k \in (DOMAIN d) \cup (DOMAIN upd) |-> IF k \in DOMAIN upd THEN upd[k] ELSE d[k]]

\* The assignment rebuilds the dict from the one key
SetItem_Fresh(d, key, value) == [k \in {key} |-> value]

\* d[key] = value
SetItem(d, key, value) ==
    [k \in (DOMAIN d) \cup {key} |-> IF k = key THEN value ELSE d[k]]

None == "None"

----------------------------------------------------------------------------
(* State store: the JSON file and its load / save *)

\* The backslash is written as it is
EscapeChar_BareBackslash(c) ==
    CASE c = "\"" -> <<"\\", "\"">>
      [] c = "\n" -> <<"\\", "n">>
      [] OTHER -> <<c>>

\* json.dump writes a string between quotes, with the quote, the backslash
\* and the newline escaped by a backslash; json.load undoes it
EscapeChar(c) ==
    CASE c = "\"" -> <<"\\", "\"">>
      [] c = "\\" -> <<"\\", "\\">>
      [] c = "\n" -> <<"\\", "n">>
      [] OTHER -> <<c>>

\* A text without any of the three characters is written as it is
RECURSIVE Escape(_)
Escape(s) ==
    IF \A k \in 1..Len(s) : s[k] \notin {"\"", "\\", "\n"} THEN s
    ELSE EscapeChar(Head(s)) \o Escape(Tail(s))

RECURSIVE Unescape(_)
Unescape(t) ==
    IF \A k \in 1..Len(t) : t[k] # "\\" THEN t
    ELSE IF Head(t) = "\\" /\ Len(t) > 1
         THEN <<IF t[2] = "n" THEN "\n" ELSE t[2]>> \o Unescape(Tail(Tail(t)))
         ELSE <<Head(t)>> \o Unescape(Tail(t))

\* The fields whose value is a text (a sequence of characters); titles,
\* hashes and timestamps are single tokens without special characters
TextFields == {"content"}

\* line 130: the JSON document of a store, key by key, field by field
json_dump(data) ==
    [u \in DOMAIN data |->
        [f \in DOMAIN data[u] |->
            IF f \in TextFields THEN Escape(data[u][f]) ELSE data[u][f]]]

\* The parser drops the hash of every record
json_load_DropsHash(doc) ==
    [u \in DOMAIN doc |->
        [f \in DOMAIN doc[u] \ {"hash"} |->
            IF f \in TextFields THEN Unescape(doc[u][f]) ELSE doc[u][f]]]

\* line 121: the value parsed from a JSON document
json_load(doc) ==
    [u \in DOMAIN doc |->
        [f \in DOMAIN doc[u] |->
            IF f \in TextFields THEN Unescape(doc[u][f]) ELSE doc[u][f]]]

\* A file: its kind and, when it holds JSON, the document
MissingFile == [kind |-> "missing", data |-> EmptyDict]
CorruptFile == [kind |-> "corrupt", data |-> EmptyDict]
JsonFile(data) == [kind |-> "ok", data |-> json_dump(data)]

\* What parsing the file gives
Stored(file) == json_load(file.data)

\* What opening and reading / writing the file does
ReadEvents == {"ok", "io_error"}
WriteEvents == {"ok", "open_error", "write_error"}

\* lines 115-124
load_stored_data(file, ev) ==
    IF file.kind # "missing"
    THEN IF ev = "ok" /\ file.kind = "ok" THEN json_load(file.data) ELSE EmptyDict
    ELSE EmptyDict

\* lines 126-133: the file after save_stored_data(data).  open(.., 'w')
\* truncates the file before anything is written.
save_stored_data(file, data, ev) ==
    CASE ev = "ok" -> JsonFile(data)
      [] ev = "open_error" -> file
      [] OTHER -> CorruptFile

----------------------------------------------------------------------------
(* Result lines: sequences of pieces, the bullet marker "-" first *)

\* The failure line names no URL
FailedLine_NoUrl(url) == <<"-", " ", "Failed to fetch content">>

FailedLine(url) == <<"-", " ", url, ": Failed to fetch content">>

AddedLine(title) ==
    <<"-", " ", title, ": Added to monitoring (baseline established)">>

NoUpdatesLine(title) == <<"-", " ", title, ": No updates detected">>

ErrorLine(title, err) ==
    <<"-", " ", title, ": Error analyzing changes - ", err>>

----------------------------------------------------------------------------
(* Change oracle client *)

\* What the chat completion request does: a reply text, or an exception
Replies ==
    { <<"-", " ", "s">>,
      <<" ", "s", "\n">>,
      <<>>,
      <<"-", " ", "s", "\n", "-", " ", "t">> }

OracleEvents ==
    {[ok |-> TRUE, reply |-> r] : r \in Replies}
        \cup {[ok |-> FALSE, reply |-> <<"timeout">>]}

\* Nothing is cut
Truncate_KeepsAll(text) == text

\* lines 151-152
Truncate(text) ==
    IF Len(text) > max_chars
    THEN SubSeq(text, 1, max_chars) \o Ellipsis ELSE text

\* lines 154-177: the old and new text the prompt carries
Prompt(url, old_content, new_content, site_title) ==
    [url |-> url, title |-> site_title,
     old |-> Truncate(old_content), new |-> Truncate(new_content)]

\* lines 195-201
PostProcess(reply) ==
    LET response == Strip(reply)
    IN IF ~StartsWithDash(response) THEN <<"-", " ">> \o response ELSE response

\* lines 149-205: the returned line
compare_with_ai(url, old_content, new_content, site_title, ev) ==
    IF ev.ok THEN PostProcess(ev.reply)
    ELSE ErrorLine(site_title, ev.reply[1])

----------------------------------------------------------------------------
(* Monitor orchestrator: the pieces of the loop body *)

\* lines 232-238: 'last_updated' reads the clock first, 'first_seen' second
NewRecord(content, hash, title, t_last, t_first) ==
    [content |-> content, hash |-> hash, title |-> title,
     last_updated |-> t_last, first_seen |-> t_first]

\* The update leaves the old hash in place
ChangedFields_StaleHash(content, hash, title, t) ==
    [content |-> content, title |-> title, last_updated |-> t]

\* The update also stamps first_seen
ChangedFields_ResetsFirstSeen(content, hash, title, t) ==
    [content |-> content, hash |-> hash, title |-> title,
     last_updated |-> t, first_seen |-> t]

\* The update forgets the title
ChangedFields_NoTitle(content, hash, title, t) ==
    [content |-> content, hash |-> hash, last_updated |-> t]

\* lines 256-261: the argument of update()
ChangedFields(content, hash, title, t) ==
    [content |-> content, hash |-> hash, title |-> title, last_updated |-> t]

\* The failure test written as 'current_content is None': never true
FetchFailed_NoneCheck(current_content) == FALSE

\* The failure test as a length threshold
FetchFailed_Short(current_content) == Len(current_content) <= 1

\* line 225: not current_content
FetchFailed(current_content) == current_content = <<>>

\* line 231
IsNew(url, store) == url \notin DOMAIN store

\* The stored content compared instead of the stored hash: never equal
HashesEqual_WrongKey(current_hash, stored_hash) == FALSE

\* The comparison inverted
HashesEqual_Inverted(current_hash, stored_hash) == current_hash # stored_hash

\* line 246
HashesEqual(current_hash, stored_hash) == current_hash = stored_hash

\* 'break' instead of 'continue': the loop ends at the first failed fetch
AfterFailure_Break(pos, list) == Len(list) + 1

\* line 227: continue, on to the next URL of the list
AfterFailure(pos, list) == pos + 1

\* One compare_with_ai call as the run's log keeps it
OracleCall(url, old_content, new_content, site_title, line) ==
    [url |-> url, old_content |-> old_content, new_content |-> new_content,
     site_title |-> site_title,
     prompt |-> Prompt(url, old_content, new_content, site_title),
     returned |-> line]

\* History of failed oracle calls: a failure of this run is remembered for
\* the next run, and forgotten once the URL has been observed in that run.
Observed(hist, url) ==
    [u \in {v \in DOMAIN hist : v # url \/ hist[v].run = "this"} |-> hist[u]]

Aged(hist) ==
    [u \in {v \in DOMAIN hist : hist[v].run = "this"} |->
        [hist[u] EXCEPT !.run = "previous"]]

NoFetch == [content |-> <<>>, title |-> ""]

\* What is kept of the process before this one: "saved" when it was a run
\* that returned after writing its store to the file, "none" otherwise (no
\* process yet, an interrupted run, a failed write, an exit on a
\* configuration error)
NoPrevious == "none"

RunBefore ==
    IF pc = "done" /\ disk = JsonFile(stored_data) THEN "saved" ELSE NoPrevious

\* No method is being applied on its own
NoCall == [fn |-> "none"]

\* The lists main() can hand over: every URL at most once, in any order
Lists ==
    {l \in UNION {[1..n -> URLs] : n \in 0..Cardinality(URLs)} :
        \A j, k \in 1..Len(l) : j # k => l[j] # l[k]}

----------------------------------------------------------------------------
(* The state after construction: nothing stored, nothing running *)

Init ==
    /\ now = 0
    /\ disk = MissingFile
    /\ pc = "idle"
    /\ websites = <<>>
    /\ i = 1
    /\ loaded = EmptyDict
    /\ stored_data = EmptyDict
    /\ results = <<>>
    /\ fetched = NoFetch
    /\ oracle_calls = <<>>
    /\ save_calls = <<>>
    /\ sleeps = 0
    /\ oracle_failed = EmptyDict
    /\ previous = NoPrevious
    /\ frame = NoCall

----------------------------------------------------------------------------
(* Environment *)

\* Time passes
Tick ==
    /\ now < MaxClock
    /\ now' = now + 1
    /\ UNCHANGED <<disk, pc, websites, i, loaded, stored_data, results, fetched,
                   oracle_calls, save_calls, sleeps, oracle_failed,
                   previous, frame>>

----------------------------------------------------------------------------
(* main(), lines 299-328: one invocation of the program up to the first    *)
(* loop iteration of monitor_websites (lines 217-218)                      *)

\* The checks made after the monitor was built and the store loaded
ConfigExit_AfterLoad ==
    /\ pc' = "exited"
    /\ websites' = <<>>
    /\ i' = 1
    /\ loaded' = load_stored_data(disk, "ok")
    /\ stored_data' = load_stored_data(disk, "ok")
    /\ results' = <<>>
    /\ fetched' = NoFetch
    /\ oracle_calls' = <<>>
    /\ save_calls' = <<>>
    /\ sleeps' = 0
    /\ UNCHANGED <<now, disk, oracle_failed, frame>>

\* sys.exit(1) before a monitor exists: nothing was read, fetched or written
ConfigExit ==
    /\ pc' = "exited"
    /\ websites' = <<>>
    /\ i' = 1
    /\ loaded' = EmptyDict
    /\ stored_data' = EmptyDict
    /\ results' = <<>>
    /\ fetched' = NoFetch
    /\ oracle_calls' = <<>>
    /\ save_calls' = <<>>
    /\ sleeps' = 0
    /\ UNCHANGED <<now, disk, oracle_failed, frame>>

Start ==
    /\ pc \in {"idle", "done", "exited", "interrupted"}
    /\ \E groq_api_key \in BOOLEAN :
        IF ~groq_api_key
        THEN ConfigExit                             \* lines 300-304
        ELSE \E list \in Lists :
             IF list = <<>>
             THEN ConfigExit                        \* lines 313-316
             ELSE \E rev \in ReadEvents :           \* lines 318-328, 217-218
                  /\ pc' = "loop"
                  /\ websites' = list
                  /\ i' = 1
                  /\ loaded' = load_stored_data(disk, rev)
                  /\ stored_data' = loaded'
                  /\ results' = <<>>
                  /\ fetched' = NoFetch
                  /\ oracle_calls' = <<>>
                  /\ save_calls' = <<>>
                  /\ sleeps' = 0
                  /\ oracle_failed' = Aged(oracle_failed)
                  /\ UNCHANGED <<now, disk, frame>>

\* A process is started; what the run before it did is not recorded
Main == Start /\ UNCHANGED previous

\* A process is started, and the run before it is recorded for comparison
MainAfter == Start /\ previous' = RunBefore

----------------------------------------------------------------------------
(* monitor_websites, lines 220-263: one iteration of the for loop *)

ProcessUrl ==
    /\ pc = "loop"
    /\ i <= Len(websites)
    /\ \E fev \in FetchEvents :
        LET url == websites[i]
            got == get_website_content(url, fev)
            current_content == got.content
            site_title == got.title
            current_hash == calculate_content_hash(current_content)
        IN
        /\ fetched' = got
        /\ IF FetchFailed(current_content)
           THEN /\ results' = Append(results, FailedLine(url))
                /\ i' = AfterFailure(i, websites)
                /\ oracle_failed' = Observed(oracle_failed, url)
                /\ UNCHANGED <<stored_data, oracle_calls, now, sleeps>>
           ELSE IF IsNew(url, stored_data)
           THEN \E d \in 0..1 :
                /\ now + d <= MaxClock
                /\ now' = now + d
                /\ i' = i + 1
                /\ stored_data' = SetItem(stored_data, url,
                        NewRecord(current_content, current_hash, site_title,
                                  now, now + d))
                /\ results' = Append(results, AddedLine(site_title))
                /\ sleeps' = sleeps + 1
                /\ oracle_failed' = Observed(oracle_failed, url)
                /\ UNCHANGED oracle_calls
           ELSE LET stored_hash == Get(stored_data[url], "hash", None)
                    stored_content == Get(stored_data[url], "content", <<>>)
                IN
                IF HashesEqual(current_hash, stored_hash)
                THEN /\ results' = Append(results, NoUpdatesLine(site_title))
                     /\ i' = i + 1
                     /\ sleeps' = sleeps + 1
                     /\ oracle_failed' = Observed(oracle_failed, url)
                     /\ UNCHANGED <<stored_data, oracle_calls, now>>
                ELSE \E oev \in OracleEvents :
                     LET change_summary ==
                             compare_with_ai(url, stored_content,
                                             current_content, site_title, oev)
                     IN
                     /\ oracle_calls' = Append(oracle_calls,
                            OracleCall(url, stored_content, current_content,
                                       site_title, change_summary))
                     /\ results' = Append(results, change_summary)
                     /\ i' = i + 1
                     /\ stored_data' = SetItem(stored_data, url,
                            Update(stored_data[url],
                                   ChangedFields(current_content, current_hash,
                                                 site_title, now)))
                     /\ sleeps' = sleeps + 1
                     /\ oracle_failed' =
                            IF oev.ok THEN Observed(oracle_failed, url)
                            ELSE SetItem(oracle_failed, url,
                                    [content |-> current_content, run |-> "this"])
                     /\ UNCHANGED now
        /\ UNCHANGED <<disk, pc, websites, loaded, save_calls, previous, frame>>

\* save_stored_data indented into the loop body: the file is written after
\* every URL
SaveAndReturn_InLoop ==
    /\ pc = "loop"
    /\ \E wev \in WriteEvents :
        disk' = save_stored_data(disk, stored_data, wev)
    /\ save_calls' = IF i > Len(websites) THEN Append(save_calls, stored_data)
                     ELSE save_calls
    /\ pc' = IF i > Len(websites) THEN "done" ELSE "loop"
    /\ UNCHANGED <<now, websites, i, loaded, stored_data, results, fetched,
                   oracle_calls, sleeps, oracle_failed, previous,
                   frame>>

\* lines 265-267 and 330-332: save, return the results, print them
SaveAndReturn ==
    /\ pc = "loop"
    /\ i > Len(websites)
    /\ \E wev \in WriteEvents :
        disk' = save_stored_data(disk, stored_data, wev)
    /\ save_calls' = Append(save_calls, stored_data)
    /\ pc' = "done"
    /\ UNCHANGED <<now, websites, i, loaded, stored_data, results, fetched,
                   oracle_calls, sleeps, oracle_failed, previous,
                   frame>>

\* lines 334-336: KeyboardInterrupt while the loop runs; the process exits
\* and its memory is gone
Interrupt ==
    /\ pc = "loop"
    /\ pc' = "interrupted"
    /\ websites' = <<>>
    /\ i' = 1
    /\ loaded' = EmptyDict
    /\ stored_data' = EmptyDict
    /\ results' = <<>>
    /\ fetched' = NoFetch
    /\ oracle_calls' = <<>>
    /\ save_calls' = <<>>
    /\ sleeps' = 0
    /\ UNCHANGED <<now, disk, oracle_failed, previous, frame>>

\* lines 129-130 and 334-336: KeyboardInterrupt while the file is written
InterruptSave ==
    /\ pc = "loop"
    /\ i > Len(websites)
    /\ disk' = CorruptFile
    /\ pc' = "interrupted"
    /\ websites' = <<>>
    /\ i' = 1
    /\ loaded' = EmptyDict
    /\ stored_data' = EmptyDict
    /\ results' = <<>>
    /\ fetched' = NoFetch
    /\ oracle_calls' = <<>>
    /\ save_calls' = <<>>
    /\ sleeps' = 0
    /\ UNCHANGED <<now, oracle_failed, previous, frame>>

----------------------------------------------------------------------------
(* compare_with_ai applied on its own, to texts around the character       *)
(* budget and to every outcome of the chat completion request              *)

run_vars == <<now, pc, websites, i, loaded, stored_data, results,
              fetched, oracle_calls, save_calls, sleeps, oracle_failed,
              previous>>

\* No run is going on
NoRun ==
    /\ now = 0
    /\ pc = "idle"
    /\ websites = <<>>
    /\ i = 1
    /\ loaded = EmptyDict
    /\ stored_data = EmptyDict
    /\ results = <<>>
    /\ fetched = NoFetch
    /\ oracle_calls = <<>>
    /\ save_calls = <<>>
    /\ sleeps = 0
    /\ oracle_failed = EmptyDict
    /\ previous = NoPrevious

Filled(n, c) == [k \in 1..n |-> c]

\* Page texts: empty, one short of the budget, the budget, and beyond it
LongTexts ==
    {Filled(n, c) :
        n \in {0, max_chars - 1, max_chars, max_chars + 1, max_chars + MaxOver},
        c \in {"x", "y"}}

CompareInit ==
    /\ NoRun
    /\ disk = MissingFile
    /\ \E old \in LongTexts, new \in LongTexts, ev \in OracleEvents :
        frame = [fn |-> "compare_with_ai",
                 args |-> [url |-> "u1", old_content |-> old,
                           new_content |-> new, site_title |-> "A", ev |-> ev],
                 done |-> FALSE, out |-> <<>>]

\* lines 149-205: the prompt is built, the request made, a line returned
Compare ==
    /\ frame.fn = "compare_with_ai"
    /\ ~frame.done
    /\ LET a == frame.args
       IN frame' = [frame EXCEPT
                !.done = TRUE,
                !.out = OracleCall(a.url, a.old_content, a.new_content,
                                   a.site_title,
                                   compare_with_ai(a.url, a.old_content,
                                       a.new_content, a.site_title, a.ev))]
    /\ UNCHANGED <<run_vars, disk>>

CompareSpec == CompareInit /\ [][Compare]_vars

----------------------------------------------------------------------------
(* load_stored_data and save_stored_data applied on their own: to whatever *)
(* file is found in the data directory, and to every store                 *)

\* Texts with the characters JSON escapes
StoreTexts == {<<"x">>, <<"\"", "\\", "n">>, <<"\\", "\\", "\n", "\"">>}

\* Records as the loop writes them (lines 232-238, 256-261)
StoreRecords ==
    {NewRecord(c, calculate_content_hash(c), "A", t_last, t_first) :
        c \in StoreTexts, t_last \in 0..MaxClock, t_first \in 0..MaxClock}

Stores == UNION {[us -> StoreRecords] : us \in SUBSET URLs}

\* JSON files that are objects of objects, but not written by this program:
\* a record without any field, a record without content and hash
ForeignStores ==
    { [u \in {"u1"} |-> EmptyDict],
      [u \in {"u1"} |-> [title |-> "A"]],
      [u \in URLs |-> [title |-> "A", first_seen |-> 0]] }

FoundFiles ==
    {MissingFile, CorruptFile}
        \cup {JsonFile(d) : d \in {EmptyDict} \cup ForeignStores}

StoreInit ==
    /\ NoRun
    /\ disk \in FoundFiles
    /\ \E data \in Stores :
        frame = [fn |-> "store", op |-> "none", ev |-> "none",
                 data |-> data, out |-> EmptyDict, saved |-> FALSE]

\* lines 126-133: save_stored_data(frame.data); 'saved' tells that the file
\* is as this save wrote it
SaveCall ==
    /\ frame.fn = "store"
    /\ frame.op = "none"
    /\ \E wev \in WriteEvents :
        /\ disk' = save_stored_data(disk, frame.data, wev)
        /\ frame' = [frame EXCEPT !.op = "save", !.ev = wev,
                                  !.saved = (wev = "ok")]
    /\ UNCHANGED run_vars

\* lines 115-124: load_stored_data(), of the file found or of the file
\* just saved
LoadCall ==
    /\ frame.fn = "store"
    /\ frame.op \in {"none", "save"}
    /\ \E rev \in ReadEvents :
        frame' = [frame EXCEPT !.op = "load", !.ev = rev,
                               !.out = load_stored_data(disk, rev)]
    /\ UNCHANGED <<run_vars, disk>>

StoreNext == SaveCall \/ LoadCall

StoreSpec == StoreInit /\ [][StoreNext]_vars

----------------------------------------------------------------------------
(* One process invocation after another *)

Next ==
    \/ Tick
    \/ Main
    \/ ProcessUrl
    \/ SaveAndReturn
    \/ Interrupt
    \/ InterruptSave

Spec == Init /\ [][Next]_vars

\* The same program, with the history of the previous run kept
RerunNext ==
    \/ Tick
    \/ MainAfter
    \/ ProcessUrl
    \/ SaveAndReturn
    \/ Interrupt
    \/ InterruptSave

RerunSpec == Init /\ [][RerunNext]_vars

\* The loop is sequential code whose blocking calls (the page request, the
\* oracle request, the file write) all return or raise: a run that is not
\* interrupted keeps taking its next step.
FairSpec == Spec /\ WF_vars(ProcessUrl) /\ WF_vars(SaveAndReturn)

----------------------------------------------------------------------------
(* Properties *)

\* A step of the for loop: the iteration for websites[i]
Iteration == pc = "loop" /\ i' = i + 1

\* The URL, and the record, of the iteration that has just ended
LastUrl == websites[i - 1]
AfterIteration == pc = "loop" /\ i > 1

\* C1: an iteration for a URL that is in the store, whose fetched content is
\* the content stored in its record, makes no compare_with_ai call and
\* appends '- <title>: No updates detected'.
C1_SameContentNoOracle ==
    [][(/\ Iteration
        /\ websites[i] \in DOMAIN stored_data
        /\ fetched'.content = stored_data[websites[i]].content)
       => (/\ oracle_calls' = oracle_calls
           /\ results' = Append(results, NoUpdatesLine(fetched'.title)))]_vars

C1_Witness ==
    /\ AfterIteration
    /\ LastUrl \in DOMAIN loaded
    /\ fetched.content = loaded[LastUrl].content
    /\ results[i - 1] = NoUpdatesLine(fetched.title)
    /\ oracle_calls = <<>>

\* C2: an iteration for a URL that is not in the store, whose fetch
\* succeeded, appends '- <title>: Added to monitoring (baseline established)'
\* and adds exactly one record, for that URL, with first_seen = last_updated.
C2_NewBaseline ==
    [][(/\ Iteration
        /\ websites[i] \notin DOMAIN stored_data
        /\ fetched'.content # <<>>)
       => (/\ results' = Append(results, AddedLine(fetched'.title))
           /\ DOMAIN stored_data' = DOMAIN stored_data \cup {websites[i]}
           /\ \A u \in DOMAIN stored_data : stored_data'[u] = stored_data[u]
           /\ stored_data'[websites[i]].first_seen
                = stored_data'[websites[i]].last_updated)]_vars

\* C3: an iteration for a URL that is in the store, whose computed
\* fingerprint differs from the stored one, makes exactly one
\* compare_with_ai call (old text: the stored content, new text: the fetched
\* content), appends the line that call returned, and overwrites content,
\* hash, title and last_updated of the record, and nothing else.
C3_ChangedCallsOracleOnce ==
    [][(/\ Iteration
        /\ websites[i] \in DOMAIN stored_data
        /\ fetched'.content # <<>>
        /\ calculate_content_hash(fetched'.content) # stored_data[websites[i]].hash)
       => (/\ Len(oracle_calls') = Len(oracle_calls) + 1
           /\ SubSeq(oracle_calls', 1, Len(oracle_calls)) = oracle_calls
           /\ LET call == oracle_calls'[Len(oracle_calls')]
              IN /\ call.url = websites[i]
                 /\ call.old_content = stored_data[websites[i]].content
                 /\ call.new_content = fetched'.content
                 /\ results' = Append(results, call.returned)
           /\ stored_data' =
                [stored_data EXCEPT ![websites[i]] =
                    [content |-> fetched'.content,
                     hash |-> calculate_content_hash(fetched'.content),
                     title |-> fetched'.title,
                     last_updated |-> now',
                     first_seen |-> stored_data[websites[i]].first_seen]])]_vars

C3_Witness ==
    /\ AfterIteration
    /\ oracle_calls # <<>>
    /\ LET call == oracle_calls[Len(oracle_calls)]
       IN /\ call.url = LastUrl
          /\ call.old_content = loaded[LastUrl].content
          /\ call.new_content = stored_data[LastUrl].content
          /\ call.old_content # call.new_content
          /\ results[i - 1] = call.returned
          /\ stored_data[LastUrl].title # loaded[LastUrl].title

\* C4: whatever fetch and oracle failures occur, a run that is not
\* interrupted goes on to the end of the list and returns; by then it has
\* one result per URL and has called save_stored_data exactly once, with the
\* store that holds every record created or updated in the run.
C4_RunCompletesAndSaves ==
    /\ (pc = "loop") ~> (pc \in {"done", "interrupted"})
    /\ [](pc = "loop" => save_calls = <<>>)
    /\ [](pc = "done" =>
            /\ i = Len(websites) + 1
            /\ Len(results) = Len(websites)
            /\ save_calls = <<stored_data>>
            /\ \A k \in 1..Len(websites) :
                  results[k] # FailedLine(websites[k])
                     => websites[k] \in DOMAIN save_calls[1]
            /\ \A c \in 1..Len(oracle_calls) :
                  save_calls[1][oracle_calls[c].url].content
                     = oracle_calls[c].new_content)

C4_Witness ==
    /\ pc = "done"
    /\ Len(websites) = 2
    /\ results[1] = FailedLine(websites[1])
    /\ Len(oracle_calls) = 1
    /\ results[2] = ErrorLine(fetched.title, "timeout")
    /\ disk = JsonFile(stored_data)

\* C5: when the oracle call for a URL failed in the previous run, the URL
\* is in the loaded store and the page content fetched now is the content
\* fetched then, this iteration calls the oracle again.
C5_FailedOracleRetried ==
    [][(/\ Iteration
        /\ websites[i] \in DOMAIN stored_data
        /\ websites[i] \in DOMAIN oracle_failed
        /\ oracle_failed[websites[i]].run = "previous"
        /\ fetched'.content = oracle_failed[websites[i]].content)
       => Len(oracle_calls') = Len(oracle_calls) + 1]_vars

\* C6: the file changes only in the step that ends a run whose loop is over
\* (so at most once per run, after every URL); every step before it,
\* an interrupt included, leaves the file as it was.
C6_FileWrittenOnceAtEnd ==
    /\ [][disk' # disk
            => (pc = "loop" /\ i > Len(websites) /\ pc' # "loop")]_vars
    /\ [](Len(save_calls) <= 1)
    /\ [](pc = "loop" => save_calls = <<>> /\ loaded \in {Stored(disk), EmptyDict})

C6_Witness ==
    /\ pc = "interrupted"
    /\ disk.kind = "ok"
    /\ DOMAIN Stored(disk) = URLs

C8_FirstSeenNeverChanges ==
    [][/\ (pc = "loop" /\ pc' = "loop") =>
            \A u \in DOMAIN stored_data :
                /\ u \in DOMAIN stored_data'
                /\ stored_data'[u].first_seen = stored_data[u].first_seen
       /\ (pc # "loop" /\ pc' = "loop") =>
            \A u \in DOMAIN stored_data' :
                /\ u \in DOMAIN Stored(disk)
                /\ stored_data'[u].first_seen = Stored(disk)[u].first_seen
       /\ (disk' # disk /\ disk'.kind = "ok") =>
            \A u \in DOMAIN stored_data :
                /\ u \in DOMAIN Stored(disk')
                /\ Stored(disk')[u].first_seen = stored_data[u].first_seen]_vars

C8_Witness ==
    /\ AfterIteration
    /\ LastUrl \in DOMAIN loaded
    /\ stored_data[LastUrl].last_updated > loaded[LastUrl].last_updated
    /\ stored_data[LastUrl].first_seen = loaded[LastUrl].first_seen
    /\ stored_data[LastUrl].first_seen < now

\* C9: an iteration for a URL that is in the store, whose computed
\* fingerprint equals the stored one, leaves the whole store as it was; and
\* last_updated of a record changes only in an iteration for its URL whose
\* computed fingerprint differs from the stored one.
C9_UnchangedKeepsRecord ==
    [][/\ (/\ Iteration
           /\ websites[i] \in DOMAIN stored_data
           /\ fetched'.content # <<>>
           /\ calculate_content_hash(fetched'.content)
                = stored_data[websites[i]].hash)
          => stored_data' = stored_data
       /\ (pc = "loop" /\ pc' = "loop") =>
            \A u \in DOMAIN stored_data :
                stored_data'[u].last_updated # stored_data[u].last_updated
                   => /\ Iteration
                      /\ websites[i] = u
                      /\ fetched'.content # <<>>
                      /\ calculate_content_hash(fetched'.content)
                           # stored_data[u].hash]_vars

C9_Witness ==
    /\ AfterIteration
    /\ LastUrl \in DOMAIN loaded
    /\ results[i - 1] = NoUpdatesLine(fetched.title)
    /\ stored_data[LastUrl] = loaded[LastUrl]
    /\ stored_data[LastUrl].last_updated < now

\* C10: an iteration whose fetch returned empty text appends
\* '- <url>: Failed to fetch content', calls no oracle and leaves the store as
\* it was; so a URL that was not in the loaded store and whose fetch failed
\* is in neither the in-memory store nor the store handed to save.
C10_FetchFailureNoRecord ==
    /\ [][(Iteration /\ fetched'.content = <<>>)
            => (/\ results' = Append(results, FailedLine(websites[i]))
                /\ oracle_calls' = oracle_calls
                /\ stored_data' = stored_data)]_vars
    /\ [](pc \in {"loop", "done"} =>
            \A k \in 1..Len(results) :
                (results[k] = FailedLine(websites[k])
                    /\ websites[k] \notin DOMAIN loaded)
                => /\ websites[k] \notin DOMAIN stored_data
                   /\ \A c \in 1..Len(save_calls) :
                         websites[k] \notin DOMAIN save_calls[c])

C10_Witness ==
    /\ pc = "done"
    /\ results[1] = FailedLine(websites[1])
    /\ websites[1] \notin DOMAIN loaded
    /\ disk = JsonFile(stored_data)
    /\ stored_data # EmptyDict


\* The URLs of the list handed to the run
Listed == {websites[k] : k \in 1..Len(websites)}

\* C11: while a run loops and when it has saved, every URL key of the store
\* it loaded is a key of its in-memory store, and of the store it handed to
\* save_stored_data; the record of a loaded URL that is not in the URL list
\* is the loaded record, in memory and in the store handed to save; a
\* successful save puts exactly that store in the file.
C11_RunKeepsRecords ==
    pc \in {"loop", "done"} =>
        \A store \in {stored_data} \cup {save_calls[c] : c \in 1..Len(save_calls)}
                     \cup (IF pc = "done" /\ disk.kind = "ok" THEN {Stored(disk)} ELSE {}) :
            \A u \in DOMAIN loaded :
                /\ u \in DOMAIN store
                /\ u \notin Listed => store[u] = loaded[u]

C11_Witness ==
    /\ pc = "done"
    /\ \E u \in DOMAIN loaded : u \notin Listed /\ save_calls[1][u] = loaded[u]
    /\ \E u \in Listed : u \notin DOMAIN loaded /\ u \in DOMAIN save_calls[1]
    /\ disk = JsonFile(save_calls[1])


\* compare_with_ai has returned
Compared == frame.fn = "compare_with_ai" /\ frame.done

\* C12: each of the two texts compare_with_ai submits is at most max_chars
\* characters long.
C12_SubmittedWithinBudget ==
    Compared =>
        /\ Len(frame.out.prompt.old) <= max_chars
        /\ Len(frame.out.prompt.new) <= max_chars

\* C12 (amended): each of the two submitted texts is at most max_chars plus
\* the three characters of the ellipsis marker long; a text of at most
\* max_chars characters is submitted whole, a longer one as its first
\* max_chars characters followed by the marker; whether one text is cut does
\* not depend on the other.
C12_SubmittedWithinBudgetPlusMarker ==
    Compared =>
        \A side \in {"old", "new"} :
            LET text == IF side = "old" THEN frame.args.old_content
                        ELSE frame.args.new_content
                sent == IF side = "old" THEN frame.out.prompt.old
                        ELSE frame.out.prompt.new
            IN /\ Len(sent) <= max_chars + Len(Ellipsis)
               /\ Len(text) <= max_chars => sent = text
               /\ Len(text) > max_chars =>
                    /\ Len(sent) = max_chars + Len(Ellipsis)
                    /\ SubSeq(sent, 1, max_chars) = SubSeq(text, 1, max_chars)
                    /\ SubSeq(sent, max_chars + 1, Len(sent)) = Ellipsis

C12_Witness ==
    /\ Compared
    /\ Len(frame.args.old_content) > max_chars + Len(Ellipsis)
    /\ Len(frame.out.prompt.old) = max_chars + Len(Ellipsis)
    /\ Len(frame.args.new_content) = max_chars
    /\ frame.out.prompt.new = frame.args.new_content

\* C13: whatever the chat completion request did, compare_with_ai returns a
\* line that begins with the bullet marker '-' and is one line.
C13_ReturnsSingleBullet ==
    Compared =>
        /\ StartsWithDash(frame.out.returned)
        /\ \A k \in 1..Len(frame.out.returned) : frame.out.returned[k] # "\n"


\* load_stored_data has returned frame.out
Loaded == frame.fn = "store" /\ frame.op = "load"

\* A snapshot: every record has the five fields
WellFormed(store) ==
    \A u \in DOMAIN store :
        DOMAIN store[u] =
            {"content", "hash", "title", "first_seen", "last_updated"}

\* C14: load_stored_data returns the empty mapping whenever the file is
\* missing, unreadable, not parseable, or parses to something that is not a
\* snapshot of well-formed records.
C14_BadStorageLoadsEmpty ==
    (/\ Loaded
     /\ \/ disk.kind \in {"missing", "corrupt"}
        \/ frame.ev = "io_error"
        \/ ~WellFormed(Stored(disk)))
    => frame.out = EmptyDict

OutcomeLines(url, got, calls) ==
    IF got.content = <<>>
    THEN {<<"-", " ", url, ": Failed to fetch content">>}
    ELSE {AddedLine(got.title), NoUpdatesLine(got.title)}
            \cup {calls[c].returned :
                    c \in {d \in 1..Len(calls) : calls[d].url = url}}

\* C15: every iteration appends exactly one line, an outcome of its URL,
\* after the lines of the URLs before it; so while the loop runs there is
\* one line per URL processed, and when monitor_websites has returned there
\* is one line per URL of the list, in list order, whatever the write of the
\* file did.
C15_OneLinePerUrlInOrder ==
    /\ [][Iteration =>
            /\ Len(results) = i - 1
            /\ Len(results') = i
            /\ SubSeq(results', 1, i - 1) = results
            /\ results'[i] \in OutcomeLines(websites[i], fetched', oracle_calls')]_vars
    /\ [][(pc = "loop" /\ pc' = "done") => results' = results]_vars
    /\ [](pc = "done" => Len(results) = Len(websites))

C15_Witness ==
    /\ pc = "done"
    /\ disk = CorruptFile
    /\ Len(websites) = 2
    /\ results[1] = FailedLine(websites[1])
    /\ results[2] = AddedLine(fetched.title)


\* C17: the exit on a configuration error is taken when no run is going on
\* and leaves the file as it was; the process that exited has loaded no
\* store, fetched no page, called no oracle, saved nothing and paused never;
\* and a run that is going on has a non-empty URL list.
C17_ConfigErrorExitsFirst ==
    /\ [][pc' = "exited" => (pc # "loop" /\ disk' = disk)]_vars
    /\ [](pc = "exited" =>
            /\ loaded = EmptyDict
            /\ stored_data = EmptyDict
            /\ fetched = NoFetch
            /\ oracle_calls = <<>>
            /\ save_calls = <<>>
            /\ results = <<>>
            /\ sleeps = 0)
    /\ [](pc = "loop" => websites # <<>>)

C17_Witness ==
    /\ pc = "exited"
    /\ disk.kind = "ok"
    /\ DOMAIN Stored(disk) = URLs
    /\ loaded = EmptyDict


\* C18: whenever the loop is about to fetch the next URL of the list, it
\* has paused once for every URL it processed before.
C18_PauseBeforeNextFetch ==
    (pc = "loop" /\ i <= Len(websites)) => sleeps = i - 1

\* The titles get_website_content returns when the request or the parsing
\* raised (lines 106, 109)
ErrorTitles == {"Error fetching", "Error processing"}

\* C19: the failure line is appended exactly when the extracted text is
\* empty.  An iteration whose request succeeded but whose text is empty
\* appends '- <url>: Failed to fetch content', and for a URL in the store it
\* calls no oracle and leaves the record as it was; an iteration whose text
\* is not empty never appends the failure line.
C19_EmptyTextIsFailure ==
    [][/\ (/\ Iteration
           /\ fetched'.content = <<>>
           /\ fetched'.title \notin ErrorTitles)
          => /\ results' =
                    Append(results,
                           <<"-", " ", websites[i], ": Failed to fetch content">>)
             /\ oracle_calls' = oracle_calls
             /\ stored_data' = stored_data
       /\ (Iteration /\ fetched'.content # <<>>)
          => results'[i] # <<"-", " ", websites[i], ": Failed to fetch content">>]_vars

C19_Witness ==
    /\ AfterIteration
    /\ LastUrl \in DOMAIN loaded
    /\ fetched = [content |-> <<>>, title |-> "No title"]
    /\ calculate_content_hash(fetched.content) # stored_data[LastUrl].hash
    /\ results[i - 1] = FailedLine(LastUrl)
    /\ stored_data[LastUrl] = loaded[LastUrl]
    /\ oracle_calls = <<>>


\* The run follows a run that returned after writing its store: the file is
\* still as that run wrote it
AfterSavedRun == pc = "loop" /\ previous = "saved"

\* The URLs of the list whose fetch succeeded in this run
FetchedNow ==
    {websites[k] : k \in {j \in 1..Len(results) :
                            results[j] # FailedLine(websites[j])}}

====
